---- MODULE Spec2Model ----
(***************************************************************************)
(* Obstacle-sweeping path counter (src/solution.cpp): a segment tree over  *)
(* the columns with point update, lazy range "set to zero" and range sum   *)
(* modulo kMod, an ordered set of active column intervals, and the row     *)
(* sweep of main() that drives both.                                       *)
(*                                                                         *)
(* Spec      : main() run on every small input (the program itself).       *)
(* SpecTree  : the SegmentTree alone under arbitrary sequences of          *)
(*             updatePoint / zeroRange / queryRange calls, next to a flat  *)
(*             reference array.                                            *)
(***************************************************************************)
EXTENDS Integers, Sequences, FiniteSets, TLC

\* ---- program constants -------------------------------------------------
kMod == 1000000007

\* ---- bounds of the model -----------------------------------------------
\* main(): grids of at most MaxRows x MaxCols with at most MaxRects rectangles
MaxRows == 3
MaxCols == 4
MaxRects == 2
\* SpecTree: trees over at most MaxWidth columns (MaxWidth <= MaxCols)
MaxWidth == 3

\* tree[] is a static array of kMaxN*4 nodes; the model keeps enough of it
\* to hold every node of a tree over MaxCols columns and the two children
\* slots of every leaf (pushDown on a leaf writes them).
TreeSize == 8 * MaxCols

VARIABLES
  \* SegmentTree seg
  tree,
  \* main(): globals and locals
  nRows, mCols, qCount, input, addRanges, delRanges, activeSegs,
  i, idx, pc, result, ops, pr,
  \* reference data kept next to the tree in SpecTree
  ways, lastOp, zeroedPos

vars == <<tree, nRows, mCols, qCount, input, addRanges, delRanges, activeSegs,
          i, idx, pc, result, ops, pr, ways, lastOp, zeroedPos>>

sweepVars == <<nRows, qCount, input, addRanges, delRanges, activeSegs,
               i, idx, pc, result, ops, pr>>

refVars == <<ways, lastOp, zeroedPos>>

NoOp == [op |-> "none", a |-> 0, b |-> 0, ret |-> 0, underTag |-> FALSE]

\* ========================================================================
\* SegmentTree
\* ========================================================================

\* static storage: every field of every node is zero before buildTree
ZeroNode == [l |-> 0, r |-> 0, tag |-> 0, sum |-> 0]

ZeroTree == [x \in 1..TreeSize |-> ZeroNode]

lson(x) == 2 * x

rson(x) == 2 * x + 1

\* (tree[x].l + tree[x].r) >> 1
Mid(t, x) == (t[x].l + t[x].r) \div 2

RECURSIVE buildTree(_, _, _, _)
buildTree(t, x, l, r) ==
  LET t1 == [t EXCEPT ![x].l = l, ![x].r = r]
  IN  IF l = r THEN t1
      ELSE LET mid == (l + r) \div 2
           IN  buildTree(buildTree(t1, lson(x), l, mid), rson(x), mid + 1, r)

\* fault variant of pushUp: the right child is left out of the sum
pushUpLeftOnly(t, x) ==
  [t EXCEPT ![x].sum = t[lson(x)].sum % kMod]

\* fault variant of pushUp: the sum is stored without reduction
pushUpNoMod(t, x) ==
  [t EXCEPT ![x].sum = t[lson(x)].sum + t[rson(x)].sum]

pushUp(t, x) ==
  [t EXCEPT ![x].sum = (t[lson(x)].sum + t[rson(x)].sum) % kMod]

\* fault variant of pushDown: the tag moves down, the child sums stay
pushDownKeepSums(t, x) ==
  IF t[x].tag # 0
  THEN [t EXCEPT ![lson(x)].tag = 1, ![rson(x)].tag = 1, ![x].tag = 0]
  ELSE t

\* fault variant of pushDown: only the left child is zeroed
pushDownLeftOnly(t, x) ==
  IF t[x].tag # 0
  THEN [t EXCEPT ![lson(x)].tag = 1, ![lson(x)].sum = 0, ![x].tag = 0]
  ELSE t

pushDown(t, x) ==
  IF t[x].tag # 0
  THEN [t EXCEPT ![lson(x)].tag = 1, ![rson(x)].tag = 1,
                 ![lson(x)].sum = 0, ![rson(x)].sum = 0,
                 ![x].tag = 0]
  ELSE t

RECURSIVE updatePoint(_, _, _, _)
updatePoint(t, x, pos, val) ==
  IF t[x].l = t[x].r
  THEN [t EXCEPT ![x].sum = val]
  ELSE LET t1 == pushDown(t, x)
           mid == Mid(t1, x)
           t2 == IF pos <= mid THEN updatePoint(t1, lson(x), pos, val) ELSE t1
           t3 == IF mid < pos THEN updatePoint(t2, rson(x), pos, val) ELSE t2
       IN  pushUp(t3, x)

RECURSIVE zeroRange(_, _, _, _)
zeroRange(t, x, l, r) ==
  IF l <= t[x].l /\ t[x].r <= r
  THEN [t EXCEPT ![x].tag = 1, ![x].sum = 0]
  ELSE LET t1 == pushDown(t, x)
           mid == Mid(t1, x)
           t2 == IF l <= mid THEN zeroRange(t1, lson(x), l, r) ELSE t1
           t3 == IF mid < r THEN zeroRange(t2, rson(x), l, r) ELSE t2
       IN  pushUp(t3, x)

\* queryRange returns a value and, through pushDown, changes the tree:
\* the result is the pair [tree, val].
RECURSIVE queryRange(_, _, _, _)
queryRange(t, x, l, r) ==
  IF l <= t[x].l /\ t[x].r <= r
  THEN [tree |-> t, val |-> t[x].sum]
  ELSE LET t1 == pushDown(t, x)
           mid == Mid(t1, x)
           a == IF l <= mid THEN queryRange(t1, lson(x), l, r)
                ELSE [tree |-> t1, val |-> 0]
           tmp1 == IF l <= mid THEN (0 + a.val) % kMod ELSE 0
           b == IF mid < r THEN queryRange(a.tree, rson(x), l, r)
                ELSE [tree |-> a.tree, val |-> 0]
           tmp2 == IF mid < r THEN (tmp1 + b.val) % kMod ELSE tmp1
       IN  [tree |-> b.tree, val |-> tmp2]

\* largest value of an int (tree[x].sum and tmp are int)
MaxInt32 == 2147483647

\* tree[lson].sum+tree[rson].sum in pushUp(x), before the reduction
PushUpPeak(t, x) == t[lson(x)].sum + t[rson(x)].sum

MaxOf(S) == CHOOSE v \in S : \A w \in S : w <= v

\* the largest value tmp+=queryRange(...) takes in queryRange(x,l,r) and
\* the calls below it, before the reduction
RECURSIVE QueryPeak(_, _, _, _)
QueryPeak(t, x, l, r) ==
  IF l <= t[x].l /\ t[x].r <= r
  THEN 0
  ELSE LET t1 == pushDown(t, x)
           mid == Mid(t1, x)
           a == IF l <= mid THEN queryRange(t1, lson(x), l, r)
                ELSE [tree |-> t1, val |-> 0]
           pa == IF l <= mid THEN QueryPeak(t1, lson(x), l, r) ELSE 0
           add1 == IF l <= mid THEN 0 + a.val ELSE 0
           b == IF mid < r THEN queryRange(a.tree, rson(x), l, r)
                ELSE [tree |-> a.tree, val |-> 0]
           pb == IF mid < r THEN QueryPeak(a.tree, rson(x), l, r) ELSE 0
           add2 == IF mid < r THEN (add1 % kMod) + b.val ELSE 0
       IN  MaxOf({pa, pb, add1, add2})

\* ========================================================================
\* set<pair<int,int>> activeSegs: an ordered set; an iterator is modelled by
\* the set of elements at or after its position (end() is the empty set)
\* ========================================================================

\* operator< of pair<int,int>
PairLess(a, b) == a[1] < b[1] \/ (a[1] = b[1] /\ a[2] < b[2])

SetMax(S) == CHOOSE e \in S : \A f \in S : f = e \/ PairLess(f, e)

SetMin(S) == CHOOSE e \in S : \A f \in S : f = e \/ PairLess(e, f)

\* activeSegs.lower_bound(key): first element not less than key
LowerBound(S, key) == {e \in S : ~PairLess(e, key)}

\* activeSegs.end()
End(S) == {}

\* it-- : step back to the element just before the iterator's position
Dec(S, it) == it \cup {SetMax(S \ it)}

\* *it
Deref(it) == SetMin(it)

\* ========================================================================
\* main(): input, event buckets, row sweep
\* ========================================================================

\* rectangles (x1,y1,x2,y2) with x1 <= x2, y1 <= y2 inside an n x m grid
Rects(n, m) ==
  {rc \in (1..n) \X (1..m) \X (1..n) \X (1..m) :
     rc[1] <= rc[3] /\ rc[2] <= rc[4]}

\* addRanges[] and delRanges[] before anything is read: empty vectors
NoRanges == [row \in 1..(MaxRows + 1) |-> <<>>]

\* addRanges[x1].push_back(make_pair(y1,y2))
PushAdd(add, rc) == [add EXCEPT ![rc[1]] = Append(@, <<rc[2], rc[4]>>)]

\* delRanges[x2+1].push_back(make_pair(y1,y2))
PushDel(del, rc) == [del EXCEPT ![rc[3] + 1] = Append(@, <<rc[2], rc[4]>>)]

\* addRanges[] after the first k rectangles of inp were read
RECURSIVE AddBuckets(_, _)
AddBuckets(inp, k) ==
  IF k = 0 THEN NoRanges ELSE PushAdd(AddBuckets(inp, k - 1), inp[k])

\* delRanges[] after the first k rectangles of inp were read
RECURSIVE DelBuckets(_, _)
DelBuckets(inp, k) ==
  IF k = 0 THEN NoRanges ELSE PushDel(DelBuckets(inp, k - 1), inp[k])

Range(seq) == {seq[k] : k \in 1..Len(seq)}

\* fault variant of a reordering: the vector is left as it was
KeepOrder(seq) == seq

\* std::sort on a vector of pairs: ascending by (first, second)
RECURSIVE SortAsc(_)
SortAsc(seq) ==
  IF seq = <<>> THEN <<>>
  ELSE LET mn == SetMin(Range(seq))
           k == CHOOSE j \in 1..Len(seq) :
                  seq[j] = mn /\ \A h \in 1..(j - 1) : seq[h] # mn
       IN  <<mn>> \o SortAsc(SubSeq(seq, 1, k - 1) \o SubSeq(seq, k + 1, Len(seq)))

\* std::reverse
Reverse(seq) == [k \in 1..Len(seq) |-> seq[Len(seq) + 1 - k]]

\* sort(...); reverse(...): descending by (l, r)
SortDesc(seq) == Reverse(SortAsc(seq))

\* fault variants of the boundary skip: never taken, always taken
SkipNever(seg, m) == FALSE

SkipAlways(seg, m) == TRUE

\* if (y==mCols) continue;
SkipsBoundary(seg, m) == seg[2] = m

\* fault variant of the lookup key: off by one
LookupKeyShort(y) == <<y + 1, 0>>

\* make_pair(y+2,0)
LookupKey(y) == <<y + 2, 0>>

\* auto it=activeSegs.lower_bound(make_pair(y+2,0));it--; auto pr=*it;
Predecessor(act, y) == Deref(Dec(act, LowerBound(act, LookupKey(y))))

Call(name, a, b) == [op |-> name, a |-> a, b |-> b]

\* one iteration of the boundary loop for the interval seg = (x,y): the
\* tree afterwards, the local pr, and the calls made
BoundaryIter(t, act, m, seg, oldPr) ==
  LET y == seg[2]
  IN  IF SkipsBoundary(seg, m)
      THEN [tree |-> t, pr |-> oldPr, ops |-> <<>>]
      ELSE LET p == Predecessor(act, y)
               q == IF p[2] <= y THEN queryRange(t, 1, p[2] + 1, y + 1)
                    ELSE [tree |-> t, val |-> 0]
               ans == q.val
           IN  [tree |-> updatePoint(q.tree, 1, y + 1, ans),
                pr |-> p,
                ops |-> <<Call("lower_bound", LookupKey(y)[1], LookupKey(y)[2])>>
                        \o (IF p[2] <= y
                            THEN <<Call("queryRange", p[2] + 1, y + 1)>>
                            ELSE <<>>)
                        \o <<Call("updatePoint", y + 1, ans)>>]

\* fault variant of the final range: it starts on the last interval's end
FinalLoInclusive(act) == Deref(Dec(act, End(act)))[2]

\* auto it=activeSegs.end();it--;  (*it).second+1
FinalLo(act) == Deref(Dec(act, End(act)))[2] + 1

\* activeSegs.insert({0,0}); for(auto segRange:addRanges[1]) insert
\* fault variant of the initialization: the sentinel is not inserted
InitialActiveNoSentinel(add) == Range(add[1])

InitialActive(add) == {<<0, 0>>} \cup Range(add[1])

\* fault variant of the initialization: the base case is not written
InitialTreeNoBase(m) == buildTree(ZeroTree, 1, 1, m)

\* seg.buildTree(1,1,mCols); seg.updatePoint(1,1,1);
InitialTree(m) == updatePoint(buildTree(ZeroTree, 1, 1, m), 1, 1, 1)

\* read(nRows,mCols,qCount): the state before the first rectangle is read
Init ==
  /\ nRows \in 1..MaxRows
  /\ mCols \in 1..MaxCols
  /\ qCount \in 0..MaxRects
  /\ input = <<>>
  /\ addRanges = NoRanges
  /\ delRanges = NoRanges
  /\ tree = ZeroTree
  /\ activeSegs = {}
  /\ i = 0 /\ idx = 0 /\ pc = "read" /\ result = 0
  /\ ops = <<>> /\ pr = <<0, 0>>
  /\ ways = <<>> /\ lastOp = NoOp /\ zeroedPos = {}

\* one iteration of while(qCount--){...}: read a rectangle, bucket it
ReadRect ==
  /\ pc = "read" /\ qCount > 0
  /\ \E rc \in Rects(nRows, mCols) :
       /\ input' = Append(input, rc)
       /\ addRanges' = PushAdd(addRanges, rc)
       /\ delRanges' = PushDel(delRanges, rc)
  /\ qCount' = qCount - 1
  /\ ops' = <<>>
  /\ UNCHANGED <<tree, nRows, mCols, activeSegs, i, idx, pc, result, pr,
                 refVars>>

\* lines 89..93, entered when the read loop ends
Initialize ==
  /\ pc = "read" /\ qCount = 0
  /\ activeSegs' = InitialActive(addRanges)
  /\ tree' = InitialTree(mCols)
  /\ i' = 2 /\ pc' = "loop"
  /\ ops' = <<Call("insert", 0, 0)>>
            \o [k \in 1..Len(addRanges[1]) |->
                  Call("insert", addRanges[1][k][1], addRanges[1][k][2])]
            \o <<Call("buildTree", 1, mCols), Call("updatePoint", 1, 1)>>
  /\ UNCHANGED <<nRows, mCols, qCount, input, addRanges, delRanges, idx,
                 result, pr, refVars>>

\* for(int i=2;i<=nRows;i++){ sort; reverse;
RowStart ==
  /\ pc = "loop" /\ i <= nRows
  /\ addRanges' = [addRanges EXCEPT ![i] = SortDesc(@)]
  /\ pc' = "boundary" /\ idx' = 1 /\ ops' = <<>>
  /\ UNCHANGED <<tree, nRows, mCols, qCount, input, delRanges, activeSegs, i, result,
                 pr, refVars>>

\* one iteration of for(auto segRange:addRanges[i]){...} (lines 97..105)
BoundaryStep ==
  /\ pc = "boundary" /\ idx <= Len(addRanges[i])
  /\ LET b == BoundaryIter(tree, activeSegs, mCols, addRanges[i][idx], pr)
     IN  tree' = b.tree /\ pr' = b.pr /\ ops' = b.ops
  /\ idx' = idx + 1
  /\ UNCHANGED <<nRows, mCols, qCount, input, addRanges, delRanges, activeSegs, i, pc,
                 result, refVars>>

BoundaryDone ==
  /\ pc = "boundary" /\ idx > Len(addRanges[i])
  /\ pc' = "erase" /\ idx' = 1 /\ ops' = <<>>
  /\ UNCHANGED <<tree, nRows, mCols, qCount, input, addRanges, delRanges, activeSegs,
                 i, result, pr, refVars>>

\* one iteration of for(auto segRange:delRanges[i]) activeSegs.erase(segRange)
EraseStep ==
  /\ pc = "erase" /\ idx <= Len(delRanges[i])
  /\ activeSegs' = activeSegs \ {delRanges[i][idx]}
  /\ ops' = <<Call("erase", delRanges[i][idx][1], delRanges[i][idx][2])>>
  /\ idx' = idx + 1
  /\ UNCHANGED <<tree, nRows, mCols, qCount, input, addRanges, delRanges, i, pc,
                 result, pr, refVars>>

EraseDone ==
  /\ pc = "erase" /\ idx > Len(delRanges[i])
  /\ pc' = "insert" /\ idx' = 1 /\ ops' = <<>>
  /\ UNCHANGED <<tree, nRows, mCols, qCount, input, addRanges, delRanges, activeSegs,
                 i, result, pr, refVars>>

\* fault variant of the activation loop: the row's expirations are
\* applied after the insertion instead of before it
InsertStepThenErase ==
  /\ pc = "insert" /\ idx <= Len(addRanges[i])
  /\ LET sg == addRanges[i][idx]
     IN  /\ activeSegs' = (activeSegs \cup {sg}) \ Range(delRanges[i])
         /\ tree' = zeroRange(tree, 1, sg[1], sg[2])
         /\ ops' = <<Call("insert", sg[1], sg[2]), Call("zeroRange", sg[1], sg[2])>>
  /\ idx' = idx + 1
  /\ UNCHANGED <<nRows, mCols, qCount, input, addRanges, delRanges, i, pc, result, pr,
                 refVars>>

\* one iteration of the activation loop: insert, then zeroRange
InsertStep ==
  /\ pc = "insert" /\ idx <= Len(addRanges[i])
  /\ LET sg == addRanges[i][idx]
     IN  /\ activeSegs' = activeSegs \cup {sg}
         /\ tree' = zeroRange(tree, 1, sg[1], sg[2])
         /\ ops' = <<Call("insert", sg[1], sg[2]), Call("zeroRange", sg[1], sg[2])>>
  /\ idx' = idx + 1
  /\ UNCHANGED <<nRows, mCols, qCount, input, addRanges, delRanges, i, pc, result, pr,
                 refVars>>

\* fault variant of the row loop's increment: i is left as it was
InsertDoneStuck ==
  /\ pc = "insert" /\ idx > Len(addRanges[i])
  /\ i' = i /\ pc' = "loop" /\ idx' = 0 /\ ops' = <<>>
  /\ UNCHANGED <<tree, nRows, mCols, qCount, input, addRanges, delRanges, activeSegs,
                 result, pr, refVars>>

\* end of the body of the row loop: i++
InsertDone ==
  /\ pc = "insert" /\ idx > Len(addRanges[i])
  /\ i' = i + 1 /\ pc' = "loop" /\ idx' = 0 /\ ops' = <<>>
  /\ UNCHANGED <<tree, nRows, mCols, qCount, input, addRanges, delRanges, activeSegs,
                 result, pr, refVars>>

\* lines 112..113: the answer
Finalize ==
  /\ pc = "loop" /\ i > nRows
  /\ LET lo == FinalLo(activeSegs)
         q == queryRange(tree, 1, lo, mCols)
     IN  /\ tree' = q.tree
         /\ result' = q.val
         /\ ops' = <<Call("queryRange", lo, mCols)>>
  /\ pc' = "done"
  /\ UNCHANGED <<nRows, mCols, qCount, input, addRanges, delRanges, activeSegs, i, idx,
                 pr, refVars>>

Next ==
  \/ ReadRect
  \/ Initialize
  \/ RowStart
  \/ BoundaryStep
  \/ BoundaryDone
  \/ EraseStep
  \/ EraseDone
  \/ InsertStep
  \/ InsertDone
  \/ Finalize

Spec == Init /\ [][Next]_vars

\* ------------------------------------------------------------------------
\* main() as a function of its input: the same loop bodies, folded
\* ------------------------------------------------------------------------

RECURSIVE BoundaryLoop(_, _, _, _, _)
BoundaryLoop(t, act, m, list, k) ==
  IF k > Len(list) THEN t
  ELSE BoundaryLoop(BoundaryIter(t, act, m, list[k], <<0, 0>>).tree,
                    act, m, list, k + 1)

RECURSIVE EraseLoop(_, _, _)
EraseLoop(act, list, k) ==
  IF k > Len(list) THEN act
  ELSE EraseLoop(act \ {list[k]}, list, k + 1)

RECURSIVE InsertLoop(_, _, _, _)
InsertLoop(t, act, list, k) ==
  IF k > Len(list) THEN [tree |-> t, act |-> act]
  ELSE InsertLoop(zeroRange(t, 1, list[k][1], list[k][2]),
                  act \cup {list[k]}, list, k + 1)

RECURSIVE RowLoop(_, _, _, _, _, _, _)
RowLoop(t, act, add, del, row, n, m) ==
  IF row > n THEN [tree |-> t, act |-> act]
  ELSE LET list == SortDesc(add[row])
           t1 == BoundaryLoop(t, act, m, list, 1)
           a1 == EraseLoop(act, del[row], 1)
           st == InsertLoop(t1, a1, list, 1)
       IN  RowLoop(st.tree, st.act, add, del, row + 1, n, m)

\* the number main() prints for the input (n, m, inp)
SweepResult(n, m, inp) ==
  LET add == AddBuckets(inp, Len(inp))
      del == DelBuckets(inp, Len(inp))
      st == RowLoop(InitialTree(m), InitialActive(add), add, del, 2, n, m)
  IN  queryRange(st.tree, 1, FinalLo(st.act), m).val

\* the stepwise run and the folded run print the same number
StepwiseAgreesWithFold ==
  pc = "done" => result = SweepResult(nRows, mCols, input)

\* ========================================================================
\* SpecTree: the segment tree under arbitrary call sequences
\* ========================================================================

\* values written by updatePoint: 0 <= v < kMod, the extremes and a unit
Vals == {0, 1, kMod - 1}

\* the flat array the tree stands for: sum of w[l..r] reduced modulo kMod
RECURSIVE FlatSum(_, _, _)
FlatSum(w, l, r) ==
  IF l > r THEN 0 ELSE (w[l] + FlatSum(w, l + 1, r)) % kMod

\* does the descent from node x to the leaf of pos pass a tagged inner node
RECURSIVE UnderTag(_, _, _)
UnderTag(t, x, pos) ==
  IF t[x].l = t[x].r THEN FALSE
  ELSE \/ t[x].tag # 0
       \/ UnderTag(t, IF pos <= Mid(t, x) THEN lson(x) ELSE rson(x), pos)

InitTree ==
  /\ mCols \in 1..MaxWidth
  /\ tree = buildTree(ZeroTree, 1, 1, mCols)
  /\ ways = [p \in 1..mCols |-> 0]
  /\ lastOp = [NoOp EXCEPT !.op = "buildTree", !.a = 1, !.b = mCols]
  /\ zeroedPos = {}
  /\ nRows = 0 /\ qCount = 0 /\ input = <<>> /\ addRanges = <<>> /\ delRanges = <<>>
  /\ activeSegs = {} /\ i = 0 /\ idx = 0 /\ pc = "tree" /\ result = 0
  /\ ops = <<>> /\ pr = <<0, 0>>

TUpdatePoint ==
  \E p \in 1..mCols, v \in Vals :
    /\ tree' = updatePoint(tree, 1, p, v)
    /\ ways' = [ways EXCEPT ![p] = v]
    /\ lastOp' = [op |-> "updatePoint", a |-> p, b |-> v, ret |-> 0,
                  underTag |-> UnderTag(tree, 1, p)]
    /\ zeroedPos' = zeroedPos \ {p}
    /\ UNCHANGED <<mCols, sweepVars>>

TZeroRange ==
  \E l \in 1..mCols :
    \E r \in l..mCols :
      /\ tree' = zeroRange(tree, 1, l, r)
      /\ ways' = [p \in 1..mCols |-> IF l <= p /\ p <= r THEN 0 ELSE ways[p]]
      /\ lastOp' = [op |-> "zeroRange", a |-> l, b |-> r, ret |-> 0,
                    underTag |-> FALSE]
      /\ zeroedPos' = zeroedPos \cup (l..r)
      /\ UNCHANGED <<mCols, sweepVars>>

TQueryRange ==
  \E l \in 1..mCols :
    \E r \in l..mCols :
      LET q == queryRange(tree, 1, l, r)
      IN  /\ tree' = q.tree
          /\ lastOp' = [op |-> "queryRange", a |-> l, b |-> r, ret |-> q.val,
                        underTag |-> FALSE]
          /\ UNCHANGED <<ways, zeroedPos, mCols, sweepVars>>

NextTree == TUpdatePoint \/ TZeroRange \/ TQueryRange

SpecTree == InitTree /\ [][NextTree]_vars

\* the value queryRange(1,l,r) returns on the current tree
Q(t, l, r) == queryRange(t, 1, l, r).val

\* C1: after buildTree and any sequence of updatePoint / zeroRange (and
\* queryRange) calls, queryRange(l,r) returns the sum of the flat array
\* ways[l..r] modulo kMod for every 1 <= l <= r <= mCols; the value a
\* queryRange call just returned is that sum too.
C1_TreeRefinesFlatArray ==
  /\ \A l \in 1..mCols : \A r \in l..mCols :
       Q(tree, l, r) = FlatSum(ways, l, r)
  /\ lastOp.op = "queryRange" => lastOp.ret = FlatSum(ways, lastOp.a, lastOp.b)

\* C1 witness: a query answered right after a point under a pending zero
\* tag was overwritten, with a non-zero flat sum over the whole tree
C1_Witness ==
  /\ lastOp.op = "queryRange" /\ lastOp.a < lastOp.b
  /\ lastOp.ret # 0
  /\ \E p \in 1..mCols : ways[p] = 0 /\ p \in zeroedPos
  /\ \E p \in 1..mCols : ways[p] = kMod - 1

\* C2: every position zeroed by a zeroRange and not written by an
\* updatePoint since reads 0: queryRange over any range of such positions
\* (in particular the zeroed range itself, right after the call and after
\* later updatePoint calls outside it) returns 0.
C2_ZeroedRangeStaysZero ==
  /\ \A l \in 1..mCols : \A r \in l..mCols :
       (l..r) \subseteq zeroedPos => Q(tree, l, r) = 0
  /\ lastOp.op = "zeroRange" => Q(tree, lastOp.a, lastOp.b) = 0

\* C2 witness: a range was zeroed earlier, then a position outside it was
\* given a non-zero value
C2_Witness ==
  /\ lastOp.op = "updatePoint" /\ lastOp.b # 0
  /\ \E l \in 1..mCols : \E r \in l..mCols :
       /\ l < r /\ (l..r) \subseteq zeroedPos
       /\ lastOp.a \notin l..r

\* C3: updatePoint(p,v) changes position p only: afterwards queryRange(p,p)
\* is v and queryRange(q,q) for every other q is what the flat array held
\* at q before the call.
C3_UpdatePointFrame ==
  [][lastOp'.op = "updatePoint" =>
       \A q \in 1..mCols :
         Q(tree', q, q) = IF q = lastOp'.a THEN lastOp'.b ELSE ways[q]]_vars

\* C3 witness: the updated position lay under a pending zero tag, another
\* position under the same tag reads 0 and one outside keeps its value
C3_Witness ==
  /\ lastOp.op = "updatePoint" /\ lastOp.underTag /\ lastOp.b # 0
  /\ \E q \in zeroedPos : q # lastOp.a
  /\ \E q \in 1..mCols : q \notin zeroedPos /\ q # lastOp.a /\ ways[q] # 0

\* ========================================================================
\* Properties of main() (checked under Spec)
\* ========================================================================

\* is cell (r,c) inside a rectangle of inp
Blocked(inp, r, c) ==
  \E k \in 1..Len(inp) :
    inp[k][1] <= r /\ r <= inp[k][3] /\ inp[k][2] <= c /\ c <= inp[k][4]

\* cell-by-cell DP: monotone paths from (1,1) to (r,c) avoiding blocked cells
RECURSIVE WaysTo(_, _, _)
WaysTo(inp, r, c) ==
  IF Blocked(inp, r, c) THEN 0
  ELSE IF r = 1 /\ c = 1 THEN 1
  ELSE ((IF r > 1 THEN WaysTo(inp, r - 1, c) ELSE 0)
        + (IF c > 1 THEN WaysTo(inp, r, c - 1) ELSE 0)) % kMod

BruteDP(n, m, inp) == WaysTo(inp, n, m)

\* binomial coefficient by Pascal's rule, reduced modulo kMod
RECURSIVE Binom(_, _)
Binom(n, k) ==
  IF k < 0 \/ k > n THEN 0
  ELSE IF k = 0 \/ k = n THEN 1
  ELSE (Binom(n - 1, k - 1) + Binom(n - 1, k)) % kMod

\* a monotone path is given by the column c[r] at which it leaves row r
MonotonePaths(n, m) ==
  {c \in [1..n -> 1..m] : c[n] = m /\ \A r \in 1..(n - 1) : c[r] <= c[r + 1]}

Avoids(c, n, inp) ==
  \A r \in 1..n :
    \A col \in (IF r = 1 THEN 1 ELSE c[r - 1])..c[r] : ~Blocked(inp, r, col)

\* the rectangles the path leaves on its right-hand (larger column) side
Side(c, inp) == {k \in 1..Len(inp) : c[inp[k][1]] < inp[k][2]}

\* number of ways to pass the rectangles: obstacle-avoiding monotone paths
\* counted up to the side on which they pass each rectangle
PassingClasses(n, m, inp) ==
  Cardinality({Side(c, inp) : c \in {d \in MonotonePaths(n, m) : Avoids(d, n, inp)}})
    % kMod

NonOverlapping(inp) ==
  \A j, k \in 1..Len(inp) :
    j # k => \/ inp[j][3] < inp[k][1] \/ inp[k][3] < inp[j][1]
             \/ inp[j][4] < inp[k][2] \/ inp[k][4] < inp[j][2]

C6_ThreeByThreeCentreBlocked ==
  (pc = "done" /\ nRows = 3 /\ mCols = 3 /\ input = <<(<<2, 2, 2, 2>>)>>) =>
     /\ result = 2
     /\ result = BruteDP(3, 3, <<>>) - BruteDP(2, 2, <<>>) * BruteDP(2, 2, <<>>)

\* C6 witness: that run has finished
C6_Witness ==
  pc = "done" /\ nRows = 3 /\ mCols = 3 /\ input = <<(<<2, 2, 2, 2>>)>>
  /\ BruteDP(3, 3, <<>>) = 6

\* every reordering of a rectangle list
Reorderings(inp) ==
  {[k \in 1..Len(inp) |-> inp[f[k]]] : f \in Permutations(1..Len(inp))}

\* C7: every permutation of the rectangle list gives the same result.
C7_InputOrderIndependent ==
  pc = "done" =>
     \A other \in Reorderings(input) :
       SweepResult(nRows, mCols, other) = result

\* C7 witness: two different rectangles activate at the same row >= 2 and
\* were read in ascending order, so the per-row sort reorders them
C7_Witness ==
  /\ pc = "done" /\ Len(input) = 2
  /\ input[1][1] = input[2][1] /\ input[1][1] >= 2
  /\ PairLess(<<input[1][2], input[1][4]>>, <<input[2][2], input[2][4]>>)
  /\ input[2][4] < mCols
  /\ result # 0

\* the interval the last BoundaryStep handled
AfterBoundaryStep == pc = "boundary" /\ idx > 1

CurSeg == addRanges[i][idx - 1]

\* C8: an interval activating at a row >= 2 with colEnd = mCols causes no
\* lookup, query or updatePoint in the boundary step; every updatePoint of
\* the driver targets a position in 1..mCols; the row still completes with
\* the interval inserted and zeroed.
C8_LastColumnSkipped ==
  /\ (AfterBoundaryStep /\ CurSeg[2] = mCols) => ops = <<>>
  /\ \A k \in 1..Len(ops) :
       ops[k].op = "updatePoint" => ops[k].a \in 1..mCols
  /\ (pc = "loop" /\ i > 2) =>
       \A sg \in Range(addRanges[i - 1]) :
         sg[2] = mCols => sg \in activeSegs /\ Q(tree, sg[1], sg[2]) = 0

\* C8 witness: the boundary step just skipped an interval ending at mCols
\* in a row that also holds an interval it wrote for
C8_Witness ==
  /\ AfterBoundaryStep /\ CurSeg[2] = mCols /\ i >= 2
  /\ Len(addRanges[i]) = 2 /\ idx = 2

\* C9: a single rectangle that ends at column mCols and at row nRows (it
\* covers the destination cell) gives the result 0.
C9_FullBlockage ==
  (pc = "done" /\ Len(input) = 1 /\ input[1][4] = mCols /\ input[1][3] = nRows) =>
     result = 0

\* C9 witness: the rectangle is the whole last column of a grid with
\* several rows and columns
C9_Witness ==
  /\ pc = "done" /\ nRows >= 2 /\ mCols >= 2
  /\ input = <<(<<1, mCols, nRows, mCols>>)>>

\* the interval of S with the greatest left endpoint <= bound, ties broken
\* by the largest right endpoint
GreatestLeftAtMost(S, bound) ==
  CHOOSE e \in S :
    /\ e[1] <= bound
    /\ \A f \in S : f[1] <= bound =>
         (f[1] < e[1] \/ (f[1] = e[1] /\ f[2] <= e[2]))

ctl == <<pc, idx, qCount, i>>

\* a step of main() that moves its control state; possible in every
\* state but the final one
Advance ==
  /\ pc # "done"
  /\ \E p \in {"read", "loop", "boundary", "erase", "insert", "done"} :
       pc' = p
  /\ \E k \in 0..(MaxRects + 1) : idx' = k
  /\ \E k \in 0..MaxRects : qCount' = k
  /\ \E k \in 0..(MaxRows + 1) : i' = k

\* main() is one sequential thread that keeps executing: until it has
\* returned, its control state eventually moves on (every step of Next
\* moves it, see C18)
SpecFair == Spec /\ WF_ctl(Advance)

\* ========================================================================
\* Further properties of the segment tree (SpecTree) and of main() (Spec)
\* ========================================================================

\* the inner nodes of the tree built over 1..mCols
InnerNodes == {x \in 1..TreeSize : tree[x].l >= 1 /\ tree[x].l < tree[x].r}

\* the positions of the tree once buildTree(1,1,mCols) has run
BuiltCols == IF tree[1].l = 1 THEN 1..tree[1].r ELSE {}

\* C11: every node's sum is in [0, kMod); every value queryRange returns
\* and every value updatePoint writes is in [0, kMod); no addition in
\* pushUp or queryRange exceeds 2^31 - 1 before it is reduced.
C11_NumericRange ==
  /\ \A x \in 1..TreeSize : tree[x].sum >= 0 /\ tree[x].sum < kMod
  /\ \A x \in InnerNodes : PushUpPeak(tree, x) <= MaxInt32
  /\ \A l \in BuiltCols : \A r \in BuiltCols :
       l <= r =>
       /\ Q(tree, l, r) >= 0 /\ Q(tree, l, r) < kMod
       /\ QueryPeak(tree, 1, l, r) <= MaxInt32
  /\ lastOp.op = "queryRange" => lastOp.ret >= 0 /\ lastOp.ret < kMod
  /\ lastOp.op = "updatePoint" => lastOp.b >= 0 /\ lastOp.b < kMod
  /\ \A k \in 1..Len(ops) :
       ops[k].op = "updatePoint" => ops[k].b >= 0 /\ ops[k].b < kMod

\* C11 witness: an inner node whose children add up to kMod or more, so
\* that the reduction changed the stored sum, and a query that wrapped
C11_Witness ==
  /\ \E x \in InnerNodes : PushUpPeak(tree, x) >= kMod
  /\ \E l \in 1..mCols : \E r \in l..mCols : QueryPeak(tree, 1, l, r) >= kMod
  /\ lastOp.op = "queryRange" /\ lastOp.ret = kMod - 2

\* the values at positions 1..m after the boundary loop of one row has
\* processed list in the order given
RowWrites(t, act, m, list) ==
  LET t1 == BoundaryLoop(t, act, m, list, 1)
  IN  [c \in 1..m |-> Q(t1, c, c)]

Descending(list) ==
  \A k \in 1..(Len(list) - 1) : ~PairLess(list[k], list[k + 1])

RowDone == i - 1

\* the column intervals of the rectangles that obstruct row r
Obstructing(inp, r) ==
  {<<inp[k][2], inp[k][4]>> : k \in {j \in 1..Len(inp) :
                                      inp[j][1] <= r /\ r <= inp[j][3]}}

\* C13: after the initialisation and after each completed row step r,
\* activeSegs is the sentinel (0,0) together with exactly the column
\* intervals of the rectangles that obstruct row r.
C13_ActiveSetExact ==
  pc = "loop" => activeSegs = {<<0, 0>>} \cup Obstructing(input, RowDone)

\* C14: after the initialisation and after each completed row step, the
\* tree's sum over every non-sentinel interval of activeSegs, and over
\* every sub-range of it, is 0 (intervals activated at row 1 included).
C14_ObstructedColumnsZero ==
  pc = "loop" =>
     \A sg \in activeSegs \ {<<0, 0>>} :
       \A l \in sg[1]..sg[2] : \A r \in l..sg[2] : Q(tree, l, r) = 0

\* activeSegs.begin(): the iterator positioned before every element
Begin(S) == S

\* C15: from the initialisation to the finalisation activeSegs contains
\* the sentinel (0,0), no erase names it, and neither a predecessor lookup
\* nor the final maximum lookup decrements an iterator equal to begin().
C15_SentinelPresent ==
  pc \in {"loop", "boundary", "erase", "insert", "done"} =>
     /\ <<0, 0>> \in activeSegs
     /\ (pc = "boundary" /\ idx <= Len(addRanges[i])
           /\ ~SkipsBoundary(addRanges[i][idx], mCols)) =>
          LowerBound(activeSegs, LookupKey(addRanges[i][idx][2]))
            # Begin(activeSegs)
     /\ (pc = "erase" /\ idx <= Len(delRanges[i])) =>
          delRanges[i][idx] # <<0, 0>>
     /\ (pc = "loop" /\ i > nRows) => End(activeSegs) # Begin(activeSegs)
     /\ (AfterBoundaryStep /\ ~SkipsBoundary(CurSeg, mCols)) =>
          pr \in activeSegs

\* C15 witness: a predecessor lookup that found the sentinel although
\* other intervals are active
C15_Witness ==
  /\ AfterBoundaryStep /\ Len(ops) > 0 /\ ops[1].op = "lower_bound"
  /\ pr = <<0, 0>> /\ Cardinality(activeSegs) >= 2

\* C16: every erase removes an interval that is in activeSegs at that
\* moment.
C16_ErasePresent ==
  (pc = "erase" /\ idx <= Len(delRanges[i])) =>
     delRanges[i][idx] \in activeSegs

InsideTree(lo, hi) == 1 <= lo /\ lo <= hi /\ hi <= mCols

\* C17 as stated: every range main() passes to queryRange or zeroRange
\* satisfies 1 <= lo <= hi <= mCols.
C17_RangesNonEmptyInside ==
  \A k \in 1..Len(ops) :
    ops[k].op \in {"queryRange", "zeroRange"} =>
       InsideTree(ops[k].a, ops[k].b)

\* C17 (amended): every zeroRange and every boundary queryRange main()
\* issues satisfies 1 <= lo <= hi <= mCols; the final query has
\* hi = mCols and 1 <= lo <= mCols + 1, and it is the empty range
\* (mCols + 1, mCols) exactly when the greatest active interval ends at
\* mCols, in which case it returns 0.
C17_RangesInsideOrEmptyFinal ==
  \A k \in 1..Len(ops) :
    /\ ops[k].op = "zeroRange" => InsideTree(ops[k].a, ops[k].b)
    /\ (ops[k].op = "queryRange" /\ pc # "done") =>
          InsideTree(ops[k].a, ops[k].b)
    /\ (ops[k].op = "queryRange" /\ pc = "done") =>
          /\ ops[k].b = mCols
          /\ 1 <= ops[k].a /\ ops[k].a <= mCols + 1
          /\ (ops[k].a = mCols + 1) <=> (SetMax(activeSegs)[2] = mCols)
          /\ (ops[k].a = mCols + 1) => result = 0

\* C17 witness: a run of two or more rows whose final query is the empty
\* range (mCols + 1, mCols)
C17_Witness ==
  /\ pc = "done" /\ nRows >= 2 /\ Len(ops) = 1
  /\ ops[1].op = "queryRange" /\ ops[1].a = mCols + 1 /\ ops[1].b = mCols

\* the row phases of main(): Initializing, Sweeping(i), Finalized
Initializing == pc = "read"
Sweeping == pc \in {"loop", "boundary", "erase", "insert"}
Finalized == pc = "done"

\* the recursions of the tree descend into strictly smaller, non-empty
\* ranges: the children of an inner node split its range at Mid
ChildrenShrink ==
  \A x \in InnerNodes :
    /\ tree[lson(x)].l = tree[x].l /\ tree[lson(x)].r = Mid(tree, x)
    /\ tree[rson(x)].l = Mid(tree, x) + 1 /\ tree[rson(x)].r = tree[x].r
    /\ tree[x].l <= Mid(tree, x) /\ Mid(tree, x) < tree[x].r

\* C18: main() goes Initializing -> Sweeping(2) -> ... -> Sweeping(nRows)
\* -> Finalized; every row 2..nRows is swept once, in increasing order
\* (none when nRows = 1); every run reaches Finalized; the recursions of
\* the tree descend into strictly smaller ranges, hence terminate.
C18_RowStateMachine ==
  /\ []((pc \in {"boundary", "erase", "insert"}) => (2 <= i /\ i <= nRows))
  /\ [](Sweeping => (2 <= i /\ i <= nRows + 1 /\ ChildrenShrink))
  /\ [](Finalized => i = (IF nRows >= 2 THEN nRows + 1 ELSE 2))
  /\ [][/\ Initializing => (Initializing' \/ (pc' = "loop" /\ i' = 2))
        /\ Sweeping => (Sweeping' \/ Finalized')
        /\ ~Finalized
        /\ ctl' # ctl
        /\ (pc = "loop" /\ pc' = "boundary") => (i' = i /\ i <= nRows)
        /\ (pc = "loop" /\ pc' = "done") => (i' = i /\ i > nRows)
        /\ (pc = "insert" /\ pc' = "loop") => i' = i + 1
        /\ (Sweeping /\ ~(pc = "insert" /\ pc' = "loop")) => i' = i]_vars
  /\ <>Finalized

\* C18 witness: a finished run that swept rows 2 and 3 of a grid with
\* obstacles
C18_Witness ==
  Finalized /\ nRows = 3 /\ i = 4 /\ Len(input) = 2

OpsAmong(log, names) == \A k \in 1..Len(log) : log[k].op \in names

\* C19: within the step of a row, every predecessor lookup and boundary
\* query runs before any erase, insert or zeroRange of that row, and every
\* erase before any insert; an interval that expires and activates at the
\* same row is in activeSegs when the step is complete.
C19_PhaseOrder ==
  [][/\ (pc = "loop" /\ pc' # "done") =>
          (pc' = "boundary" /\ activeSegs' = activeSegs /\ tree' = tree)
     /\ pc = "boundary" =>
          /\ pc' \in {"boundary", "erase"}
          /\ activeSegs' = activeSegs
          /\ OpsAmong(ops', {"lower_bound", "queryRange", "updatePoint"})
     /\ pc = "erase" =>
          /\ pc' \in {"erase", "insert"}
          /\ tree' = tree
          /\ OpsAmong(ops', {"erase"})
     /\ pc = "insert" =>
          /\ pc' \in {"insert", "loop"}
          /\ OpsAmong(ops', {"insert", "zeroRange"})
          /\ activeSegs \subseteq activeSegs'
          /\ pc' = "loop" => Range(addRanges[i]) \subseteq activeSegs']_vars

\* C19 witness: a completed row step in which an interval both expired
\* and activated
C19_Witness ==
  /\ pc = "loop" /\ i > 2
  /\ \E sg \in Range(addRanges[i - 1]) \cap Range(delRanges[i - 1]) :
       sg \in activeSegs

\* the leaves of the tree built over 1..mCols
LeafNodes == {x \in 1..TreeSize : tree[x].l >= 1 /\ tree[x].l = tree[x].r}

\* node x has sum 0 and every position of its range holds 0
ZeroBelow(x) ==
  /\ tree[x].sum = 0
  /\ \A p \in tree[x].l..tree[x].r : ways[p] = 0

\* C20 as stated: every node whose tag is set, leaves included, has
\* sum 0, and every position under it holds 0.
C20_TaggedNodesZero ==
  \A x \in InnerNodes \cup LeafNodes : tree[x].tag # 0 => ZeroBelow(x)

\* C20 (amended): every inner node whose tag is set has sum 0, and every
\* position under it holds 0; a leaf keeps its tag when updatePoint
\* writes to it, so a tagged leaf can hold a non-zero value.
C20_TaggedInnerNodesZero ==
  /\ \A x \in InnerNodes : tree[x].tag # 0 => ZeroBelow(x)
  /\ \A x \in LeafNodes :
       (tree[x].tag # 0 /\ tree[x].sum # 0) =>
          tree[x].l \notin zeroedPos \/ UnderTag(tree, 1, tree[x].l)

\* C20 witness: an inner node is tagged while a tagged leaf holds a value
\* that updatePoint wrote
C20_Witness ==
  /\ \E x \in InnerNodes : tree[x].tag # 0
  /\ \E x \in LeafNodes : tree[x].tag # 0 /\ tree[x].sum # 0

====
